---- MODULE Spec2Model ----
(***************************************************************************)
(* A model of the market-event ingestion scripts:                          *)
(*   funding.py : one markPrice stream task per instrument updating the    *)
(*                shared current_rates map, and the minute scheduler that  *)
(*                snapshots the map and appends a row to the CSV file;     *)
(*   liqs.py    : the forced-order stream with its reconnect backoff and   *)
(*                the per-event liquidation filter.                        *)
(* Specifications: Spec (funding.py), SpecLiq (liqs.py), SpecFilter        *)
(* (process_liquidation alone), SpecLive and SpecLocks (progress under     *)
(* fairness), SpecSchedule (a late scheduler), SpecWait (the wait          *)
(* computation).                                                           *)
(* Times are integers: wall-clock instants are [s, us] (second of the day  *)
(* and microsecond), durations are microseconds (sleeps of funding.py) or  *)
(* milliseconds (backoff of liqs.py).                                      *)
(***************************************************************************)
EXTENDS Integers, Sequences, FiniteSets, TLC

\* Python's None for an optional number: unset is <<>>, the number v is <<v>>
None == <<>>
Some(v) == <<v>>
\* an asyncio.Lock nobody holds
Unlocked == "unlocked"

Min(a, b) == IF a <= b THEN a ELSE b
Max(a, b) == IF a >= b THEN a ELSE b

(***************************************************************************)
(* funding.py: configuration                                               *)
(***************************************************************************)
\* display_names; the model follows two of the six configured instruments.
display_names == <<"BTC", "ETH">>
Instruments == {display_names[k] : k \in 1..Len(display_names)}

\* Raw funding rates 'r' carried by valid frames, in units of 10^-6.
RawRates == {-100, 100}

\* yearly_funding_rate = (funding_rate * 3 * 365) * 100, in units of 10^-6 percent.
YearlyRate(r) == (r * 3 * 365) * 100

\* f"{rate:.2f}%": the rate rounded to hundredths of a percent (None is not
\* formattable; the row then holds no number for that column).
Format2f(v) ==
    IF v = None THEN None
    ELSE IF v[1] >= 0 THEN Some((v[1] + 5000) \div 10000)
    ELSE Some(0 - ((5000 - v[1]) \div 10000))

MicrosPerSecond == 1000000
\* COLLECTION_INTERVAL (seconds) and the fixed sleep that ends a cycle
COLLECTION_INTERVAL == 60
SleepWholeInterval == COLLECTION_INTERVAL
SleepAfterCollection == 55
ClosedSleep == 5
DecodeSleep == 1
ErrorSleep == 5

(***************************************************************************)
(* Bounds of the model                                                     *)
(***************************************************************************)
MaxCycles == 2          \* triggers of the scheduler that are followed
SubSecondSteps == 4     \* clock resolution: steps per second
MaxBackoffFails == 7    \* consecutive connection failures of the liquidation stream
MaxFrames == 2          \* frames the liquidation stream receives
MaxConns == 2           \* connections the liquidation stream opens
MaxProbes == 1          \* direct calls of process_liquidation

MicroStep == MicrosPerSecond \div SubSecondSteps

\* the raw rate of the frames in the specifications that follow one rate only
ScheduleRates == {100}

VARIABLES
    \* funding.py
    current_rates,   \* instrument -> latest yearly rate, or None
    data_lock,       \* holder of data_lock, or None
    csv_lock,        \* holder of csv_lock, or None
    fpc,             \* stream task position: "connect", "recv", "lock", "update", "sleep"
                     \* ("cancelled" once the program is being torn down)
    fpending,        \* yearly_funding_rate of the frame in hand (None once it is stored)
    fdelay,          \* seconds of the task's latest asyncio.sleep since its last
                     \* successful connect (0 when there was none)
    csv_rows,        \* data rows of funding_rates.csv, in file order
    spc,             \* scheduler position ("crashed" once an exception has left it)
    now,             \* wall clock (UTC), [s |-> second of day, us |-> microsecond]
    wait_time,       \* microseconds_to_wait computed by the scheduler
    collection_time, \* minute (since midnight) of the current collection cycle
    snapshot,        \* the scheduler's copy of current_rates
    \* history of the run, read only by the properties
    last_update,     \* instrument -> value of the last update applied
    snap_truth,      \* last_update at the instant of the latest snapshot
    row_truth,       \* per written row: snap_truth of its cycle, and whether an update came since
    triggers,        \* collection minutes of the triggers so far
    cycle_lag,       \* delay beyond the scheduled sleeps in the current cycle
    slow,            \* some cycle's delay reached 5 seconds
    \* liqs.py
    lpc,             \* binance_liquidation position: "connect", "recv", "sleep"
    backoff,         \* backoff, in seconds
    lsleep,          \* milliseconds of the asyncio.sleep in progress (0 when none)
    main_log,        \* data rows of binance_all_liquidations.csv
    token_log,       \* token -> data rows of <token>_liquidations.csv
    \* history of the run, read only by the properties
    lconn,           \* connections opened so far (the current one is number lconn)
    lfails,          \* failures that reached the backoff since the last connect
    lframes,         \* frames received so far: [conn, kind]
    lcalls,          \* per call of process_liquidation so far, its connection
    lregrown,        \* the latest successful connect found the backoff grown
    levent           \* what process_liquidation did with the frame just received
                     \* (None when the latest frame carried no order object)

fundingVars == <<current_rates, data_lock, csv_lock, fpc, fpending, fdelay,
                 csv_rows, spc, now, wait_time, collection_time,
                 snapshot, last_update, snap_truth, row_truth, triggers,
                 cycle_lag, slow>>

streamVars == <<current_rates, fpc, fpending, fdelay, last_update>>
schedVars == <<csv_rows, spc, now, wait_time, collection_time, snapshot, snap_truth,
               row_truth, triggers, cycle_lag, slow>>

liqVars == <<lpc, backoff, lsleep, main_log, token_log, lconn, lfails, lframes, lcalls,
             lregrown, levent>>

vars == <<fundingVars, liqVars>>

(***************************************************************************)
(* funding.py: wall clock                                                  *)
(***************************************************************************)
Clock(sec, us) == [s |-> sec, us |-> us]

\* t + d microseconds (d >= 0)
AddMicros(t, d) ==
    LET tot == t.us + d
    IN  [s |-> t.s + (tot \div MicrosPerSecond), us |-> tot % MicrosPerSecond]

\* datetime.replace(second=0, microsecond=0), as minutes since midnight
MinuteOf(t) == t.s \div 60

\* strftime('%H:%M:%S') of a minute-truncated time
Strftime(m) == <<(m \div 60) % 24, m % 60, 0>>

\* seconds_to_next_minute of scheduled_data_collection
SecondsToNextMinute(second) ==
    IF 60 - second = 60 THEN 0 ELSE 60 - second

\* microseconds_to_wait of scheduled_data_collection, for now = t
WaitMicros(t) ==
    SecondsToNextMinute(t.s % 60) * MicrosPerSecond - t.us

(***************************************************************************)
(* funding.py: continuous_funding_stream(symbol, display_name)             *)
(***************************************************************************)
\* the delay a failure of kind ev is followed by
FailureSleep(ev) ==
    CASE ev = "closed"  -> ClosedSleep
      [] ev = "badjson" -> DecodeSleep
      [] OTHER          -> ErrorSleep

\* the except clauses: log, then asyncio.sleep
FundingFail(i, ev) ==
    /\ fpc' = [fpc EXCEPT ![i] = "sleep"]
    /\ fdelay' = [fdelay EXCEPT ![i] = FailureSleep(ev)]
    /\ UNCHANGED <<current_rates, fpending, last_update, data_lock, csv_lock>>
    /\ UNCHANGED <<schedVars, liqVars>>

\* connect(websocket_url) succeeds
FundingConnectOk(i) ==
    /\ fpc[i] = "connect"
    /\ fpc' = [fpc EXCEPT ![i] = "recv"]
    /\ fdelay' = [fdelay EXCEPT ![i] = 0]
    /\ UNCHANGED <<current_rates, fpending, last_update, data_lock, csv_lock>>
    /\ UNCHANGED <<schedVars, liqVars>>

\* connect(websocket_url) raises
FundingConnectFail(i) ==
    /\ fpc[i] = "connect"
    /\ FundingFail(i, "openfail")

\* recv() returns a frame that parses and carries a numeric 'r'
FundingRecvValid(i, r) ==
    /\ fpc[i] = "recv"
    /\ fpc' = [fpc EXCEPT ![i] = "lock"]
    /\ fpending' = [fpending EXCEPT ![i] = Some(YearlyRate(r))]
    /\ UNCHANGED <<current_rates, fdelay, last_update, data_lock, csv_lock>>
    /\ UNCHANGED <<schedVars, liqVars>>

\* recv() returns a frame json.loads rejects: JSONDecodeError leaves the
\* 'async with connect' block (closing the connection) to the except clause
FundingRecvBadJson(i) ==
    /\ fpc[i] = "recv"
    /\ FundingFail(i, "badjson")

\* the frame parses but has no numeric 'r' (KeyError, ValueError, TypeError)
FundingRecvBadField(i) ==
    /\ fpc[i] = "recv"
    /\ FundingFail(i, "badfield")

\* recv() raises ConnectionClosed
FundingRecvClosed(i) ==
    /\ fpc[i] = "recv"
    /\ FundingFail(i, "closed")

\* async with data_lock: acquire
FundingAcquire(i) ==
    /\ fpc[i] = "lock"
    /\ data_lock = Unlocked
    /\ data_lock' = i
    /\ fpc' = [fpc EXCEPT ![i] = "update"]
    /\ UNCHANGED <<current_rates, fpending, fdelay, last_update,
                   csv_lock>>
    /\ UNCHANGED <<schedVars, liqVars>>

\* current_rates[display_name] = yearly_funding_rate
UpdatedRatesOnly(rates, i, v) == [n \in Instruments |-> IF n = i THEN v ELSE None]
UpdatedRates(rates, i, v) == [rates EXCEPT ![i] = v]

\* the body of 'async with data_lock' and the release
FundingUpdate(i) ==
    /\ fpc[i] = "update"
    /\ data_lock = i
    /\ current_rates' = UpdatedRates(current_rates, i, fpending[i])
    /\ last_update' = [last_update EXCEPT ![i] = fpending[i]]
    /\ data_lock' = Unlocked
    /\ fpc' = [fpc EXCEPT ![i] = "recv"]
    /\ fpending' = [fpending EXCEPT ![i] = None]
    /\ UNCHANGED <<fdelay, csv_lock>>
    /\ UNCHANGED <<schedVars, liqVars>>

\* asyncio.sleep(...) of an except clause returns; back to 'while True'
FundingSleepDone(i) ==
    /\ fpc[i] = "sleep"
    /\ fpc' = [fpc EXCEPT ![i] = "connect"]
    /\ UNCHANGED <<current_rates, fpending, fdelay, last_update, data_lock, csv_lock>>
    /\ UNCHANGED <<schedVars, liqVars>>

(***************************************************************************)
(* funding.py: scheduled_data_collection and write_to_csv                  *)
(***************************************************************************)
\* now = datetime.now(timezone.utc); ...; wait_time = microseconds_to_wait / 1e6
SchedComputeWait ==
    /\ spc = "compute"
    /\ wait_time' = WaitMicros(now)
    /\ spc' = "sleep_boundary"
    /\ cycle_lag' = 0
    /\ UNCHANGED <<csv_rows, now, collection_time, snapshot, snap_truth, row_truth,
                   triggers, slow>>
    /\ UNCHANGED <<streamVars, data_lock, csv_lock, liqVars>>

\* await asyncio.sleep(wait_time) returns (at once when wait_time <= 0), over
\* microseconds late; collection_time = now.replace(second=0, microsecond=0)
SchedTrigger(over) ==
    /\ spc = "sleep_boundary"
    /\ Len(triggers) < MaxCycles
    /\ now' = AddMicros(now, Max(wait_time, 0) + over)
    /\ collection_time' = MinuteOf(now')
    /\ triggers' = Append(triggers, MinuteOf(now'))
    /\ cycle_lag' = over
    /\ spc' = "snap_wait"
    /\ UNCHANGED <<csv_rows, wait_time, snapshot, snap_truth, row_truth, slow>>
    /\ UNCHANGED <<streamVars, data_lock, csv_lock, liqVars>>

\* async with data_lock: acquire
SchedAcquireData ==
    /\ spc = "snap_wait"
    /\ data_lock = Unlocked
    /\ data_lock' = "scheduler"
    /\ spc' = "snap_hold"
    /\ UNCHANGED <<csv_rows, now, wait_time, collection_time, snapshot, snap_truth,
                   row_truth, triggers, cycle_lag, slow>>
    /\ UNCHANGED <<streamVars, csv_lock, liqVars>>

\* snapshot = current_rates.copy()
SnapshotOf(rates) == rates

\* data_lock at the end of the scheduler's 'async with data_lock' block,
\* which closes before write_to_csv is awaited
DataLockKeptForWrite == "scheduler"
DataLockAfterSnapshot == Unlocked

\* the body of 'async with data_lock' (copy, console output) and the release
SchedSnapshot ==
    /\ spc = "snap_hold"
    /\ data_lock = "scheduler"
    /\ snapshot' = SnapshotOf(current_rates)
    /\ snap_truth' = last_update
    /\ data_lock' = DataLockAfterSnapshot
    /\ spc' = "write"
    /\ UNCHANGED <<csv_rows, now, wait_time, collection_time, row_truth, triggers,
                   cycle_lag, slow>>
    /\ UNCHANGED <<streamVars, csv_lock, liqVars>>

\* 'None in rates.values()' of write_to_csv
IncompleteAllUnset(rates) == \A n \in Instruments : rates[n] = None
Incomplete(rates) == \E n \in Instruments : rates[n] = None

\* write_to_csv: incomplete data, the write is skipped
SchedWriteSkip ==
    /\ spc = "write"
    /\ Incomplete(snapshot)
    /\ spc' = "sleep55"
    /\ UNCHANGED <<csv_rows, now, wait_time, collection_time, snapshot, snap_truth,
                   row_truth, triggers, cycle_lag, slow>>
    /\ UNCHANGED <<streamVars, data_lock, csv_lock, liqVars>>

\* what 'async with csv_lock' makes of the lock on entry
CsvLockNotTaken(task) == Unlocked
CsvLockTaken(task) == task

\* write_to_csv: async with csv_lock: acquire
SchedWriteAcquire ==
    /\ spc = "write"
    /\ ~Incomplete(snapshot)
    /\ csv_lock = Unlocked
    /\ csv_lock' = CsvLockTaken("scheduler")
    /\ spc' = "csv_hold"
    /\ UNCHANGED <<csv_rows, now, wait_time, collection_time, snapshot, snap_truth,
                   row_truth, triggers, cycle_lag, slow>>
    /\ UNCHANGED <<streamVars, data_lock, liqVars>>

\* row = [timestamp, *[f"{rates[name]:.2f}%" for name in display_names]]
CsvRow(timestamp, rates) ==
    [time |-> timestamp,
     values |-> [k \in 1..Len(display_names) |-> Format2f(rates[display_names[k]])]]

\* the rates the scheduler hands to write_to_csv
RatesToWriteLive == current_rates
RatesToWrite == snapshot

\* write_to_csv: writer.writerow(row) and the release of csv_lock
SchedWriteRow ==
    /\ spc = "csv_hold"
    /\ csv_lock = "scheduler"
    /\ csv_rows' = Append(csv_rows, CsvRow(Strftime(collection_time), RatesToWrite))
    /\ row_truth' = Append(row_truth, [snap |-> snap_truth, raced |-> (last_update # snap_truth)])
    /\ csv_lock' = Unlocked
    /\ spc' = "sleep55"
    /\ UNCHANGED <<now, wait_time, collection_time, snapshot, snap_truth, triggers,
                   cycle_lag, slow>>
    /\ UNCHANGED <<streamVars, data_lock, liqVars>>

\* write_to_csv: open(CSV_FILENAME, 'a') or writer.writerow raises OSError.
\* 'async with csv_lock' releases the lock and nothing catches the error in
\* write_to_csv, scheduled_data_collection or main: asyncio.gather hands it to
\* main, asyncio.run cancels the stream tasks (CancelledError is not an
\* Exception, so their except clauses let it through) and the program logs
\* "Unhandled exception" and ends.
SchedWriteFail ==
    /\ spc = "csv_hold"
    /\ csv_lock' = Unlocked
    /\ spc' = "crashed"
    /\ fpc' = [i \in Instruments |-> "cancelled"]
    /\ data_lock' = Unlocked
    /\ UNCHANGED <<csv_rows, now, wait_time, collection_time, snapshot, snap_truth,
                   row_truth, triggers, cycle_lag, slow>>
    /\ UNCHANGED <<current_rates, fpending, fdelay, last_update, liqVars>>

\* await asyncio.sleep(55) returns; lat microseconds were spent since the
\* trigger on the snapshot, the write and the lateness of this sleep
SchedSleepDone(lat) ==
    /\ spc = "sleep55"
    /\ now' = AddMicros(now, SleepAfterCollection * MicrosPerSecond + lat)
    /\ cycle_lag' = cycle_lag + lat
    /\ slow' = (slow \/ cycle_lag' >= 5 * MicrosPerSecond)
    /\ spc' = "compute"
    /\ UNCHANGED <<csv_rows, wait_time, collection_time, snapshot, snap_truth,
                   row_truth, triggers>>
    /\ UNCHANGED <<streamVars, data_lock, csv_lock, liqVars>>


(***************************************************************************)
(* liqs.py: process_liquidation(order_data)                                *)
(***************************************************************************)
\* Symbols are sequences of letters, so that prefixes can be taken.
BTC == <<"B", "T", "C">>
ETH == <<"E", "T", "H">>
SOL == <<"S", "O", "L">>
XRP == <<"X", "R", "P">>
AVAX == <<"A", "V", "A", "X">>
BNB == <<"B", "N", "B">>
USDT == <<"U", "S", "D", "T">>
DOGE == <<"D", "O", "G", "E">>

TOKENS_TO_WATCH == <<BTC, ETH, SOL, XRP, AVAX, BNB>>

\* A field of the order object: a number (text that float()/int() accepts),
\* absent, text that is no number, or JSON null.
Num(n) == <<"num", n>>
Missing == <<"missing">>
Text == <<"text">>
Null == <<"null">>

\* str.replace(pat, ''): every occurrence of pat removed, left to right
RECURSIVE RemoveAll(_, _)
RemoveAll(str, pat) ==
    IF Len(str) < Len(pat) THEN str
    ELSE IF SubSeq(str, 1, Len(pat)) = pat
         THEN RemoveAll(SubSeq(str, Len(pat) + 1, Len(str)), pat)
         ELSE <<Head(str)>> \o RemoveAll(Tail(str), pat)

\* str.startswith(prefix)
StartsWith(str, prefix) ==
    /\ Len(prefix) <= Len(str)
    /\ SubSeq(str, 1, Len(prefix)) = prefix

\* the 'for token in TOKENS_TO_WATCH' loop: the first token that is a prefix
\* of symbol, <<>> when there is none (base_token is None)
BaseToken(symbol) ==
    LET hits == {k \in 1..Len(TOKENS_TO_WATCH) : StartsWith(symbol, TOKENS_TO_WATCH[k])}
    IN  IF hits = {} THEN <<>>
        ELSE TOKENS_TO_WATCH[CHOOSE k \in hits : \A j \in hits : k <= j]

\* usd_size = filled_quantity * price; quantities are in hundredths of a unit,
\* prices in dollars, so usd_size is in cents
UsdSize(o) == o.z[2] * o.p[2]

MinUsdCents == 300000
BoldUsdCents == 1000000

\* 'if usd_size < 3000: return'
TooSmallInclusive(usd) == usd <= MinUsdCents
TooSmall(usd) == usd < MinUsdCents

\* What process_liquidation does with order o:
\*   "raise"   an exception leaves the function (caught by the receive loop),
\*   "skip"    the symbol is not in the watch list,
\*   "invalid" float() failed with KeyError or ValueError (logged),
\*   "small"   usd_size < 3000,
\*   "kept"    the event is printed and written.
ProcessOutcome(o) ==
    IF o.s = Missing THEN "raise"
    ELSE IF BaseToken(RemoveAll(o.s, USDT)) = <<>> THEN "skip"
    ELSE IF o.S = "missing" THEN "raise"
    ELSE IF o.T[1] # "num" THEN "raise"
    ELSE IF o.z[1] \in {"missing", "text"} THEN "invalid"
    ELSE IF o.z[1] = "null" THEN "raise"
    ELSE IF o.p[1] \in {"missing", "text"} THEN "invalid"
    ELSE IF o.p[1] = "null" THEN "raise"
    ELSE IF TooSmall(UsdSize(o)) THEN "small"
    ELSE "kept"

\* liquidation_type and attrs of the console line
LiquidationType(o) == IF o.S = "SELL" THEN "L LIQ" ELSE "S LIQ"
Bold(o) == UsdSize(o) > BoldUsdCents

\* the console line of a kept event: cprint(output, 'white', f'on_{color}', attrs)
ConsoleLine(o) ==
    IF ProcessOutcome(o) # "kept" THEN None
    ELSE Some([type |-> LiquidationType(o), token |-> BaseToken(RemoveAll(o.s, USDT)),
               usd |-> UsdSize(o), bold |-> Bold(o)])

\* time_est: '%H:%M:%S' of the event time (milliseconds of the UTC day) in
\* US/Eastern, on a day of standard time (UTC-5)
TimeEst(ms) ==
    LET sec == ((ms \div 1000) + 86400 - 5 * 3600) % 86400
    IN  <<sec \div 3600, (sec \div 60) % 60, sec % 60>>

\* msg_values, and token_msg_values = msg_values + [time_est]
MainRow(o) == [s |-> o.s, S |-> o.S, z |-> o.z[2], p |-> o.p[2], T |-> o.T[2],
               usd |-> UsdSize(o)]
TokenRow(o) == [s |-> o.s, S |-> o.S, z |-> o.z[2], p |-> o.p[2], T |-> o.T[2],
                usd |-> UsdSize(o), time_est |-> TimeEst(o.T[2])]

\* The order objects the feed delivers in the model.
EventTime == Num(46805250)
OrderBtcLong == [s |-> BTC \o USDT, S |-> "SELL", T |-> EventTime, z |-> Num(50), p |-> Num(90000)]
OrderBtcTiny == [s |-> BTC \o USDT, S |-> "SELL", T |-> EventTime, z |-> Num(1), p |-> Num(90000)]
OrderEthShort == [s |-> ETH \o USDT, S |-> "BUY", T |-> EventTime, z |-> Num(300), p |-> Num(2000)]
OrderDoge == [s |-> DOGE \o USDT, S |-> "SELL", T |-> EventTime, z |-> Num(10000000), p |-> Num(1)]
OrderBadQty == [s |-> BTC \o USDT, S |-> "SELL", T |-> EventTime, z |-> Text, p |-> Num(90000)]
OrderNoSymbol == [s |-> Missing, S |-> "SELL", T |-> EventTime, z |-> Num(50), p |-> Num(90000)]
OrderBadTime == [s |-> BTC \o USDT, S |-> "SELL", T |-> Text, z |-> Num(50), p |-> Num(90000)]
OrderNoPrice == [s |-> ETH \o USDT, S |-> "BUY", T |-> EventTime, z |-> Num(300), p |-> Missing]
OrderNullQty == [s |-> BTC \o USDT, S |-> "SELL", T |-> EventTime, z |-> Null, p |-> Num(90000)]
Orders == {OrderBtcLong, OrderBtcTiny, OrderEthShort, OrderDoge, OrderBadQty, OrderNoSymbol,
           OrderBadTime, OrderNoPrice, OrderNullQty}

\* the two appends of process_liquidation; an append that raises is logged and
\* the function goes on (mainOk, tokenOk: whether each open/write succeeds)
LogsAfterEveryToken(o, mainOk, tokenOk) ==
    IF ProcessOutcome(o) # "kept" THEN [main |-> main_log, token |-> token_log]
    ELSE [main |-> IF mainOk THEN Append(main_log, MainRow(o)) ELSE main_log,
          token |-> IF tokenOk
                    THEN [k \in DOMAIN token_log |-> Append(token_log[k], TokenRow(o))]
                    ELSE token_log]
LogsAfter(o, mainOk, tokenOk) ==
    IF ProcessOutcome(o) # "kept" THEN [main |-> main_log, token |-> token_log]
    ELSE LET base == BaseToken(RemoveAll(o.s, USDT))
         IN  [main |-> IF mainOk THEN Append(main_log, MainRow(o)) ELSE main_log,
              token |-> IF tokenOk
                        THEN [token_log EXCEPT ![base] = Append(@, TokenRow(o))]
                        ELSE token_log]

\* the call as the properties see it: the order, which append raised, and the
\* console line
EventOf(o, mainOk, tokenOk) ==
    [order |-> o,
     mainErr |-> (ProcessOutcome(o) = "kept" /\ ~mainOk),
     tokenErr |-> (ProcessOutcome(o) = "kept" /\ ~tokenOk),
     printed |-> ConsoleLine(o)]

\* await process_liquidation(o), called outside the receive loop
ProcessLiquidation(o, mainOk, tokenOk) ==
    /\ Len(lcalls) < MaxProbes
    /\ lcalls' = Append(lcalls, lconn)
    /\ main_log' = LogsAfter(o, mainOk, tokenOk).main
    /\ token_log' = LogsAfter(o, mainOk, tokenOk).token
    /\ levent' = Some(EventOf(o, mainOk, tokenOk))
    /\ UNCHANGED <<lpc, backoff, lsleep, lconn, lfails, lframes, lregrown>>
    /\ UNCHANGED fundingVars

(***************************************************************************)
(* liqs.py: binance_liquidation(uri)                                       *)
(***************************************************************************)
initial_backoff == 1
max_backoff == 60

\* asyncio.get_event_loop().time() % 1, in thousandths
JitterFractions == {0, 500, 999}

\* backoff + (0.1 * backoff * frac), in milliseconds
SleepMillis(b, frac) == b * 1000 + ((b * frac) \div 10)

\* backoff = min(backoff * 2, max_backoff)
NextBackoffUncapped(b) == b * 2
NextBackoff(b) == Min(b * 2, max_backoff)

\* where the receive loop goes after 'except json.JSONDecodeError': continue
AfterDecodeErrorBreak == "connect"
AfterDecodeError == "recv"

\* where the receive loop goes once process_liquidation has returned or
\* raised: 'except Exception: continue' keeps it in the loop either way
AfterProcessingUncaught(outcome) == IF outcome = "raise" THEN "connect" ELSE "recv"
AfterProcessing(outcome) == "recv"

\* where binance_liquidation goes after 'except ConnectionClosed: break':
\* out of the receive loop and round the outer 'while True'
AfterClosedReturn == "returned"
AfterClosed == "connect"

\* 'backoff = 1  # Reset backoff on successful connection'
BackoffKept(b) == b
BackoffOnConnect(b) == initial_backoff

\* connect(uri) succeeds: backoff = 1
LiqConnectOk ==
    /\ lpc = "connect"
    /\ lconn < MaxConns
    /\ lconn' = lconn + 1
    /\ backoff' = BackoffOnConnect(backoff)
    /\ lregrown' = (backoff > initial_backoff)
    /\ lfails' = 0
    /\ lpc' = "recv"
    /\ UNCHANGED <<lsleep, main_log, token_log, lframes, lcalls, levent>>
    /\ UNCHANGED fundingVars

\* connect(uri) raises: the outer except clause logs and starts the sleep
LiqConnectFail(frac) ==
    /\ lpc = "connect"
    /\ lfails < MaxBackoffFails
    /\ lfails' = lfails + 1
    /\ lsleep' = SleepMillis(backoff, frac)
    /\ lpc' = "sleep"
    /\ UNCHANGED <<backoff, main_log, token_log, lconn, lframes, lcalls, lregrown, levent>>
    /\ UNCHANGED fundingVars

\* the sleep returns: backoff = min(backoff * 2, max_backoff), back to 'while True'
LiqSleepDone ==
    /\ lpc = "sleep"
    /\ backoff' = NextBackoff(backoff)
    /\ lsleep' = 0
    /\ lpc' = "connect"
    /\ UNCHANGED <<main_log, token_log, lconn, lfails, lframes, lcalls, lregrown, levent>>
    /\ UNCHANGED fundingVars

\* a frame with an order object 'o': await process_liquidation(data['o']);
\* an exception it raises is caught by 'except Exception: continue'
LiqRecvOrder(o, mainOk, tokenOk) ==
    /\ lpc = "recv"
    /\ Len(lframes) < MaxFrames
    /\ lframes' = Append(lframes, [conn |-> lconn, kind |-> "order"])
    /\ lcalls' = Append(lcalls, lconn)
    /\ main_log' = LogsAfter(o, mainOk, tokenOk).main
    /\ token_log' = LogsAfter(o, mainOk, tokenOk).token
    /\ levent' = Some(EventOf(o, mainOk, tokenOk))
    /\ lpc' = AfterProcessing(ProcessOutcome(o))
    /\ UNCHANGED <<backoff, lsleep, lconn, lfails, lregrown>>
    /\ UNCHANGED fundingVars

\* a frame that parses but has no 'o' (or is no JSON object): nothing is done
LiqRecvOther ==
    /\ lpc = "recv"
    /\ Len(lframes) < MaxFrames
    /\ lframes' = Append(lframes, [conn |-> lconn, kind |-> "other"])
    /\ lpc' = "recv"
    /\ levent' = None
    /\ UNCHANGED <<backoff, lsleep, main_log, token_log, lconn, lfails, lcalls, lregrown>>
    /\ UNCHANGED fundingVars

\* a frame json.loads rejects: 'except json.JSONDecodeError'
LiqRecvBadJson ==
    /\ lpc = "recv"
    /\ Len(lframes) < MaxFrames
    /\ lframes' = Append(lframes, [conn |-> lconn, kind |-> "badjson"])
    /\ lpc' = AfterDecodeError
    /\ levent' = None
    /\ UNCHANGED <<backoff, lsleep, main_log, token_log, lconn, lfails, lcalls, lregrown>>
    /\ UNCHANGED fundingVars

\* recv() raises ConnectionClosed: 'break' leaves the receive loop and the
\* 'async with' block without an exception, so 'while True' connects again
LiqRecvClosed ==
    /\ lpc = "recv"
    /\ lpc' = AfterClosed
    /\ levent' = None
    /\ UNCHANGED <<backoff, lsleep, main_log, token_log, lconn, lfails, lframes, lcalls, lregrown>>
    /\ UNCHANGED fundingVars

(***************************************************************************)
(* Initial states                                                          *)
(***************************************************************************)
StreamInit ==
    /\ current_rates = [n \in Instruments |-> None]
    /\ data_lock = Unlocked
    /\ csv_lock = Unlocked
    /\ fpc = [n \in Instruments |-> "connect"]
    /\ fpending = [n \in Instruments |-> None]
    /\ fdelay = [n \in Instruments |-> 0]
    /\ last_update = [n \in Instruments |-> None]

SchedInit(t) ==
    /\ csv_rows = <<>>
    /\ spc = "compute"
    /\ now = t
    /\ wait_time = 0
    /\ collection_time = 0
    /\ snapshot = [n \in Instruments |-> None]
    /\ snap_truth = [n \in Instruments |-> None]
    /\ row_truth = <<>>
    /\ triggers = <<>>
    /\ cycle_lag = 0
    /\ slow = FALSE

LiqInit ==
    /\ lpc = "connect"
    /\ backoff = initial_backoff
    /\ lsleep = 0
    /\ main_log = <<>>
    /\ token_log = [k \in {TOKENS_TO_WATCH[j] : j \in 1..Len(TOKENS_TO_WATCH)} |-> <<>>]
    /\ lconn = 0
    /\ lfails = 0
    /\ lframes = <<>>
    /\ lcalls = <<>>
    /\ lregrown = FALSE
    /\ levent = None

\* 12:00:37.250 UTC
StartTime == Clock(12 * 3600 + 37, 250000)

(***************************************************************************)
(* Spec: funding.py, the stream tasks and a punctual scheduler             *)
(***************************************************************************)
Init ==
    /\ StreamInit
    /\ SchedInit(StartTime)
    /\ LiqInit

StreamNext ==
    \E i \in Instruments :
        \/ FundingConnectOk(i)
        \/ FundingConnectFail(i)
        \/ \E r \in RawRates : FundingRecvValid(i, r)
        \/ FundingRecvBadJson(i)
        \/ FundingRecvBadField(i)
        \/ FundingRecvClosed(i)
        \/ FundingAcquire(i)
        \/ FundingUpdate(i)
        \/ FundingSleepDone(i)

Next ==
    \/ StreamNext
    \/ SchedComputeWait
    \/ SchedTrigger(0)
    \/ SchedAcquireData
    \/ SchedSnapshot
    \/ SchedWriteSkip
    \/ SchedWriteAcquire
    \/ SchedWriteRow
    \/ SchedWriteFail
    \/ SchedSleepDone(0)

Spec == Init /\ [][Next]_vars

(***************************************************************************)
(* SpecLiq: liqs.py, the liquidation stream                                *)
(***************************************************************************)
NextLiq ==
    \/ LiqConnectOk
    \/ \E frac \in JitterFractions : LiqConnectFail(frac)
    \/ LiqSleepDone
    \/ \E o \in Orders : \E mainOk \in BOOLEAN : \E tokenOk \in BOOLEAN :
           LiqRecvOrder(o, mainOk, tokenOk)
    \/ LiqRecvOther
    \/ LiqRecvBadJson
    \/ LiqRecvClosed

SpecLiq == Init /\ [][NextLiq]_vars

(***************************************************************************)
(* SpecFilter: process_liquidation applied to well-formed order objects:   *)
(* every symbol of FilterSymbols with either side and every size of        *)
(* FilterSizes (filled quantity in hundredths, price in dollars), which     *)
(* put the notional below, at and above 3000 and 10000 dollars.            *)
(***************************************************************************)
ETHFI == <<"E", "T", "H", "F", "I">>
FilterSymbols == {BTC \o USDT, ETH \o USDT, ETHFI \o USDT, BNB \o USDT, DOGE \o USDT}
FilterSizes == {<<50, 90000>>, <<1, 90000>>, <<100, 2999>>, <<100, 3000>>,
                <<100, 10000>>, <<100, 10001>>}
FilterOrders ==
    {[s |-> sym, S |-> side, T |-> EventTime, z |-> Num(size[1]), p |-> Num(size[2])] :
        sym \in FilterSymbols, side \in {"SELL", "BUY"}, size \in FilterSizes}

NextFilter ==
    \E o \in FilterOrders : \E mainOk \in BOOLEAN : \E tokenOk \in BOOLEAN :
        ProcessLiquidation(o, mainOk, tokenOk)

SpecFilter == Init /\ [][NextFilter]_vars

(***************************************************************************)
(* SpecLive: the stream tasks of both programs with every failure they     *)
(* handle, and no task cancelled.  Frames of the liquidation stream are    *)
(* not followed.  A sleep that was started returns: the event loop's timer *)
(* resumes the task.                                                       *)
(***************************************************************************)
NextLive ==
    \/ StreamNext
    \/ LiqConnectOk
    \/ \E frac \in JitterFractions : LiqConnectFail(frac)
    \/ LiqSleepDone
    \/ LiqRecvClosed

LiveFairness ==
    /\ \A i \in Instruments : WF_vars(FundingSleepDone(i))
    /\ WF_vars(LiqSleepDone)

SpecLive == Init /\ [][NextLive]_vars /\ LiveFairness

(***************************************************************************)
(* SpecLocks: funding.py, the tasks that take data_lock and csv_lock.  The *)
(* streams deliver one rate and may be closed; the scheduler is punctual.  *)
(* A task that can run does run, and asyncio.Lock wakes its waiters in     *)
(* arrival order, so a waiter is not passed over for ever.                 *)
(***************************************************************************)
NextLocks ==
    \/ \E i \in Instruments :
           \/ FundingConnectOk(i)
           \/ \E r \in ScheduleRates : FundingRecvValid(i, r)
           \/ FundingRecvClosed(i)
           \/ FundingAcquire(i)
           \/ FundingUpdate(i)
           \/ FundingSleepDone(i)
    \/ SchedComputeWait
    \/ SchedTrigger(0)
    \/ SchedAcquireData
    \/ SchedSnapshot
    \/ SchedWriteSkip
    \/ SchedWriteAcquire
    \/ SchedWriteRow
    \/ SchedWriteFail
    \/ SchedSleepDone(0)

LockFairness ==
    /\ \A i \in Instruments : SF_vars(FundingAcquire(i)) /\ WF_vars(FundingUpdate(i))
    /\ SF_vars(SchedAcquireData)
    /\ WF_vars(SchedSnapshot)
    /\ WF_vars(SchedWriteAcquire)
    /\ WF_vars(SchedWriteRow \/ SchedWriteFail)

SpecLocks == Init /\ [][NextLocks]_vars /\ LockFairness

(***************************************************************************)
(* SpecSchedule: funding.py with a scheduler that runs late.  The process  *)
(* starts at any of StartTimes; the boundary sleep returns up to one clock *)
(* step late, and a cycle spends one of Latencies beyond its 55 seconds.   *)
(* The streams deliver valid frames only, all with the same rate.          *)
(***************************************************************************)
StartTimes == {StartTime,
               Clock(12 * 3600, MicroStep),
               Clock(12 * 3600 + 59, MicrosPerSecond - MicroStep)}
Overshoots == {0, MicroStep}
Latencies == {0, 5 * MicrosPerSecond - MicroStep, 6 * MicrosPerSecond}

InitSchedule ==
    /\ StreamInit
    /\ \E t \in StartTimes : SchedInit(t)
    /\ LiqInit

NextSchedule ==
    \/ \E i \in Instruments :
           \/ FundingConnectOk(i)
           \/ \E r \in ScheduleRates : FundingRecvValid(i, r)
           \/ FundingAcquire(i)
           \/ FundingUpdate(i)
    \/ SchedComputeWait
    \/ \E over \in Overshoots : SchedTrigger(over)
    \/ SchedAcquireData
    \/ SchedSnapshot
    \/ SchedWriteSkip
    \/ SchedWriteAcquire
    \/ SchedWriteRow
    \/ \E lat \in Latencies : SchedSleepDone(lat)

SpecSchedule == InitSchedule /\ [][NextSchedule]_vars

(***************************************************************************)
(* SpecWait: the wait computation of scheduled_data_collection applied to  *)
(* every clock reading of one minute (seconds 0..59, each sub-second step) *)
(***************************************************************************)
ClockReadings ==
    {Clock(12 * 3600 + sec, k * MicroStep) : sec \in 0..59, k \in 0..(SubSecondSteps - 1)}

InitWait ==
    /\ StreamInit
    /\ \E t \in ClockReadings : SchedInit(t)
    /\ LiqInit

NextWait == SchedComputeWait

SpecWait == InitWait /\ [][NextWait]_vars

(***************************************************************************)
(* Properties                                                              *)
(***************************************************************************)
Columns == 1..Len(display_names)

RECURSIVE Pow2(_)
Pow2(k) == IF k <= 0 THEN 1 ELSE 2 * Pow2(k - 1)

\* C1: every row of the aggregate funding file has a value for every
\* instrument, and a cycle whose snapshot has an unset entry never enters the
\* write section and leaves no row with its timestamp: the scheduler goes on
\* to the sleep that ends the cycle.
C1_NoPartialRow ==
    /\ \A k \in 1..Len(csv_rows) : \A c \in Columns : csv_rows[k].values[c] # None
    /\ (/\ spc \in {"write", "csv_hold", "sleep55", "compute", "sleep_boundary"}
        /\ \E n \in Instruments : snapshot[n] = None)
       => /\ spc # "csv_hold"
          /\ \A k \in 1..Len(csv_rows) : csv_rows[k].time # Strftime(collection_time)

\* C1 witness: a trigger found one instrument set and another unset, wrote
\* nothing and reached the sleep that ends the cycle.
C1_Witness ==
    /\ spc = "sleep55"
    /\ \E n \in Instruments : snapshot[n] = None
    /\ \E n \in Instruments : snapshot[n] # None
    /\ csv_rows = <<>>

\* C2: under every interleaving, the snapshot holds for each instrument the
\* value of the last update applied before the snapshot (unset if none), and
\* the row written for the cycle carries those values, whatever updates
\* arrive between the snapshot and the write.
C2_SnapshotIsLastUpdate ==
    /\ spc \in {"write", "csv_hold", "sleep55"} => snapshot = snap_truth
    /\ Len(csv_rows) = Len(row_truth)
    /\ \A k \in 1..Len(csv_rows) :
           csv_rows[k].values =
               [c \in Columns |-> Format2f(row_truth[k].snap[display_names[c]])]

\* C2 witness: a row was written after an update changed a rate between the
\* cycle's snapshot and its write.
C2_Witness ==
    \E k \in 1..Len(row_truth) : row_truth[k].raced

\* C3: in continuous_funding_stream a frame that fails to parse as JSON leaves
\* the connection streaming (no close, no reconnect).
C3_DecodeErrorKeepsStreaming ==
    [][\A i \in Instruments : FundingRecvBadJson(i) => fpc'[i] = "recv"]_vars

\* C4: in binance_liquidation a frame that fails to parse as JSON leaves the
\* receive loop on the same connection, and the next frame with an order on
\* that connection is passed to process_liquidation.
C4_DecodeErrorKeepsLoop ==
    /\ [][LiqRecvBadJson => (lpc' = "recv" /\ lconn' = lconn)]_vars
    /\ [][(/\ Len(lframes) >= 1
           /\ lframes[Len(lframes)].kind = "badjson"
           /\ Len(lframes') = Len(lframes) + 1
           /\ lframes'[Len(lframes')].kind = "order"
           /\ lframes'[Len(lframes')].conn = lframes[Len(lframes)].conn)
          => lcalls' = Append(lcalls, lframes[Len(lframes)].conn)]_vars

\* C4 witness: an order frame was processed right after a malformed frame on
\* the same connection.
C4_Witness ==
    \E k \in 1..(Len(lframes) - 1) :
        /\ lframes[k].kind = "badjson"
        /\ lframes[k + 1].kind = "order"
        /\ lframes[k + 1].conn = lframes[k].conn
        /\ Len(lcalls) >= 1
        /\ lcalls[Len(lcalls)] = lframes[k].conn

\* C5: whenever a stream connection leaves Connecting or Streaming because of
\* a failure it enters Backoff with a positive delay; no failure leads
\* straight to a new connection attempt.
C5_FailureEntersBackoff ==
    [][/\ (\/ lpc = "recv" /\ lpc' # "recv"
           \/ lpc = "connect" /\ lpc' \notin {"connect", "recv"})
          => (lpc' = "sleep" /\ lsleep' > 0)
       /\ \A i \in Instruments :
            (\/ fpc[i] \in {"recv", "lock", "update"}
                /\ fpc'[i] \notin {"recv", "lock", "update"}
             \/ fpc[i] = "connect" /\ fpc'[i] \notin {"connect", "recv"})
            => (fpc'[i] = "sleep" /\ fdelay'[i] > 0)]_vars

\* C6: in binance_liquidation the base delay of the k-th consecutive failure
\* (k = 0, 1, ...) is min(2^k, 60) seconds, and the stored backoff is always
\* between 1 and 60.
C6_BackoffIsCappedPowerOfTwo ==
    /\ backoff >= 1
    /\ backoff <= 60
    /\ lpc = "sleep" => backoff = Min(Pow2(lfails - 1), 60)
    /\ lpc # "sleep" => backoff = Min(Pow2(lfails), 60)

\* C6 witness: the seventh consecutive failure sleeps on the capped base of 60
\* seconds (2^6 = 64 is over the ceiling).
C6_Witness ==
    /\ lpc = "sleep"
    /\ lfails = 7
    /\ backoff = 60

\* C7: the duration binance_liquidation sleeps in Backoff (base plus jitter)
\* never exceeds 60 seconds.
C7_SleepWithinCeiling ==
    lpc = "sleep" => lsleep <= 60 * 1000

\* C8: in continuous_funding_stream the delay before the reconnect grows with
\* consecutive failures as min(initialDelay * 2^k, maxDelay): the first
\* failure after a successful connect waits a positive initialDelay, and each
\* further consecutive failure waits twice the previous delay, up to the 60
\* second ceiling.
C8_FundingDelayDoubles ==
    [][\A i \in Instruments :
          (fpc[i] = "connect" /\ fpc'[i] = "sleep")
          => IF fdelay[i] = 0 THEN fdelay'[i] > 0
             ELSE fdelay'[i] = Min(2 * fdelay[i], 60)]_vars

\* the collection minutes of successive triggers are successive minutes
SuccessiveMinutes ==
    \A k \in 1..(Len(triggers) - 1) : triggers[k + 1] = triggers[k] + 1

\* C9 (as claimed): whatever the latency, scheduled_data_collection triggers
\* once for every minute boundary after its first trigger.
C9_OncePerMinute == SuccessiveMinutes

\* C9 (amended): as long as every cycle so far ran less than 5 seconds late in
\* total (lateness of the boundary sleep, snapshot and write, lateness of the
\* 55 second sleep), no minute is skipped and none is triggered twice.
C9_OncePerMinuteWithinBuffer == ~slow => SuccessiveMinutes

\* C9 witness: two triggers done, the last cycle ran at least 4 seconds late and
\* no cycle reached 5 seconds.
C9_Witness ==
    /\ Len(triggers) >= 2
    /\ spc = "compute"
    /\ cycle_lag >= 4 * MicrosPerSecond
    /\ ~slow

\* C10: for every clock reading t the computed wait is the time left to the
\* next minute boundary: 0 <= wait <= 60 s and t + wait is a :00 boundary at or
\* after t; t = 12:00:37.250 gives 22.75 s.
C10_WaitReachesNextBoundary ==
    spc = "sleep_boundary" =>
        /\ wait_time >= 0
        /\ wait_time <= 60 * MicrosPerSecond
        /\ AddMicros(now, wait_time).us = 0
        /\ AddMicros(now, wait_time).s % 60 = 0
        /\ now = StartTime => wait_time = 22750000

\* C11: an I/O error while the snapshot row is appended costs that cycle's row
\* only: the scheduler goes on to its sleep and next cycle, and every stream
\* task stays where it was.
C11_WriteFailureLosesOneRow ==
    [][SchedWriteFail =>
          /\ spc' \in {"sleep55", "compute", "sleep_boundary"}
          /\ \A i \in Instruments : fpc'[i] = fpc[i]]_vars

\* the symbol with a trailing USDT taken off
StripSuffix(sym) ==
    IF Len(sym) >= Len(USDT) /\ SubSeq(sym, Len(sym) - Len(USDT) + 1, Len(sym)) = USDT
    THEN SubSeq(sym, 1, Len(sym) - Len(USDT))
    ELSE sym

\* positions in the watch list of the entries the symbol starts with
WatchHits(sym) ==
    {k \in 1..Len(TOKENS_TO_WATCH) :
        /\ Len(TOKENS_TO_WATCH[k]) <= Len(sym)
        /\ \A j \in 1..Len(TOKENS_TO_WATCH[k]) : sym[j] = TOKENS_TO_WATCH[k][j]}

\* filled quantity times price, in cents
NotionalCents(o) == o.z[2] * o.p[2]

\* C12: process_liquidation keeps an event exactly when its symbol without the
\* USDT suffix starts with a watch-list entry and quantity * price >= 3000; a
\* kept event is filed under the first such entry in list order, labelled long
\* exactly when its side is SELL, and emphasized exactly when its notional
\* exceeds 10000.  BTCUSDT SELL 0.5 @ 90000 is kept as a BTC long of 45000,
\* and with quantity 0.01 (900) it is discarded.
C12_KeepsWatchedLargeEvents ==
    levent # None =>
        LET o == levent[1].order
            printed == levent[1].printed
            hits == WatchHits(StripSuffix(o.s))
        IN  /\ printed # None <=> (hits # {} /\ NotionalCents(o) >= 3000 * 100)
            /\ printed # None =>
                  /\ \E k \in hits : /\ printed[1].token = TOKENS_TO_WATCH[k]
                                      /\ \A j \in hits : k <= j
                  /\ printed[1].type = "L LIQ" <=> o.S = "SELL"
                  /\ printed[1].type \in {"L LIQ", "S LIQ"}
                  /\ printed[1].bold <=> NotionalCents(o) > 10000 * 100
            /\ o = OrderBtcLong =>
                  printed = Some([type |-> "L LIQ", token |-> BTC, usd |-> 45000 * 100,
                                  bold |-> TRUE])
            /\ o = OrderBtcTiny => printed = None

\* an event of exactly 3000 dollars was kept, without emphasis
C12_Witness ==
    /\ levent # None
    /\ levent[1].order.z = Num(100)
    /\ levent[1].order.p = Num(3000)
    /\ levent[1].printed # None
    /\ ~levent[1].printed[1].bold

\* log' is log with exactly n more rows at its end
Grew(log, logAfter, n) ==
    /\ Len(logAfter) = Len(log) + n
    /\ SubSeq(logAfter, 1, Len(log)) = log

\* the step is one call of process_liquidation
CallStep == Len(lcalls') = Len(lcalls) + 1 /\ levent' # None

\* the first watch-list entry, in list order, the symbol starts with
CategoryOf(o) ==
    TOKENS_TO_WATCH[CHOOSE k \in WatchHits(StripSuffix(o.s)) :
                        \A j \in WatchHits(StripSuffix(o.s)) : k <= j]

\* C13 (as stated): each kept event appends exactly one row to the global log
\* and exactly one row to the log of its category and leaves the other category
\* logs unchanged; each discarded event leaves every log unchanged.
C13_KeptAppendsOneRowEach ==
    [][CallStep =>
          IF levent'[1].printed # None
          THEN /\ Grew(main_log, main_log', 1)
               /\ Grew(token_log[CategoryOf(levent'[1].order)],
                       token_log'[CategoryOf(levent'[1].order)], 1)
               /\ \A k \in DOMAIN token_log :
                      k # CategoryOf(levent'[1].order) => token_log'[k] = token_log[k]
          ELSE main_log' = main_log /\ token_log' = token_log]_vars

\* C13 (amended): each kept event appends exactly one row to the global log
\* unless that append raises, and exactly one row to the log of its category
\* unless that append raises (a file whose append raises gets no row and the
\* other append is still made); the other category logs are unchanged, and a
\* discarded event leaves every log unchanged.
C13_KeptAppendsUnlessWriteFails ==
    [][CallStep =>
          IF levent'[1].printed # None
          THEN /\ Grew(main_log, main_log', IF levent'[1].mainErr THEN 0 ELSE 1)
               /\ Grew(token_log[CategoryOf(levent'[1].order)],
                       token_log'[CategoryOf(levent'[1].order)],
                       IF levent'[1].tokenErr THEN 0 ELSE 1)
               /\ \A k \in DOMAIN token_log :
                      k # CategoryOf(levent'[1].order) => token_log'[k] = token_log[k]
          ELSE main_log' = main_log /\ token_log' = token_log]_vars

\* after a BTC event whose global append raised, an ETH event has been kept
\* and has written both of its rows
C13_Witness ==
    /\ levent # None
    /\ levent[1].order = OrderEthShort
    /\ ~levent[1].mainErr /\ ~levent[1].tokenErr
    /\ Len(main_log) = 1
    /\ Len(token_log[ETH]) = 1
    /\ Len(token_log[BTC]) = 1

\* a required field (symbol, event time, filled quantity, price) is missing or
\* is not a number
Malformed(o) ==
    \/ o.s = Missing
    \/ o.T[1] # "num"
    \/ o.z[1] # "num"
    \/ o.p[1] # "num"

\* C14: an event with a missing or non-numeric required field is discarded
\* without a row in any log and without ending the stream: the connection
\* stays open, no reconnect or backoff starts, and the next event on the
\* connection is processed.
C14_MalformedEventIsDropped ==
    /\ [][(CallStep /\ Malformed(levent'[1].order)) =>
              /\ levent'[1].printed = None
              /\ main_log' = main_log
              /\ token_log' = token_log
              /\ lpc' = "recv"
              /\ lconn' = lconn
              /\ backoff' = backoff /\ lsleep' = lsleep /\ lfails' = lfails]_vars
    /\ [][(/\ levent # None
           /\ Malformed(levent[1].order)
           /\ Len(lframes') = Len(lframes) + 1
           /\ lframes'[Len(lframes')].kind = "order") =>
              /\ lframes'[Len(lframes')].conn = lframes[Len(lframes)].conn
              /\ lcalls' = Append(lcalls, lconn)
              /\ levent' # None]_vars

\* a malformed event has been handled as the second event of a connection
\* that is still receiving
C14_Witness ==
    /\ levent # None
    /\ Malformed(levent[1].order)
    /\ lpc = "recv"
    /\ Len(lcalls) = 2
    /\ lcalls[1] = lconn

\* C15: no stream task, of funding.py or of liqs.py, that is not cancelled
\* ever leaves its run loop, and after every failure (the task is in the
\* sleep of an except clause) it comes back to a connection attempt.
C15_StreamsReconnectForever ==
    /\ [](\A i \in Instruments : fpc[i] \in {"connect", "recv", "lock", "update", "sleep"})
    /\ [](lpc \in {"connect", "recv", "sleep"})
    /\ \A i \in Instruments : (fpc[i] = "sleep") ~> (fpc[i] = "connect")
    /\ (lpc = "sleep") ~> (lpc = "connect")

\* both kinds of stream are back at a connection attempt after failures: the
\* BTC stream after a 5 second sleep, the liquidation stream after its third
\* consecutive failure
C15_Witness ==
    /\ fpc["BTC"] = "connect"
    /\ fdelay["BTC"] = ErrorSleep
    /\ lpc = "connect"
    /\ lfails = 3

\* C16: the only task inside the write section of funding_rates.csv is the
\* holder of csv_lock, and every append to the file is made by a step of
\* that holder, which then releases the lock.
C16_AppendsHoldCsvLock ==
    /\ [](spc = "csv_hold" <=> csv_lock = "scheduler")
    /\ [](csv_lock \in {Unlocked, "scheduler"})
    /\ [][csv_rows' # csv_rows =>
              /\ csv_lock = "scheduler"
              /\ spc = "csv_hold"
              /\ csv_lock' = Unlocked
              /\ Grew(csv_rows, csv_rows', 1)]_vars

\* the scheduler is in the write section for its second row while a stream
\* task is in its own critical section
C16_Witness ==
    /\ spc = "csv_hold"
    /\ csv_lock = "scheduler"
    /\ Len(csv_rows) = 1
    /\ \E i \in Instruments : fpc[i] = "update"

\* C17: every successful connection of binance_liquidation puts the backoff
\* back to 1 second, so the first failure that sleeps after a successful
\* connect waits 1 second plus jitter (under a tenth of it), whatever the
\* backoff had grown to before that connect.
C17_BackoffResetOnConnect ==
    /\ (lconn >= 1 /\ lfails = 0) => backoff = 1
    /\ (lconn >= 1 /\ lfails = 1 /\ lpc = "sleep") =>
           (backoff = 1 /\ lsleep >= 1000 /\ lsleep < 1100)

\* the first failure after a connect that followed a grown backoff sleeps
\* 1.0999 seconds
C17_Witness ==
    /\ lregrown
    /\ lfails = 1
    /\ lpc = "sleep"
    /\ lsleep = 1099

\* C18: an entry of current_rates that is set is never unset again, by any
\* step of any task; so once a row has been written every instrument is set,
\* every later snapshot is complete, and write_to_csv goes on to the append
\* instead of skipping.
C18_RatesStaySet ==
    /\ [][\A i \in Instruments : current_rates[i] # None => current_rates'[i] # None]_vars
    /\ [](csv_rows # <<>> => \A i \in Instruments : current_rates[i] # None)
    /\ []((csv_rows # <<>> /\ spc = "write") => \A i \in Instruments : snapshot[i] # None)
    /\ [][(csv_rows # <<>> /\ spc = "write" /\ spc' # "write") => spc' = "csv_hold"]_vars

\* the second trigger is in its append while the BTC stream, disconnected
\* since, sleeps before reconnecting
C18_Witness ==
    /\ Len(csv_rows) = 1
    /\ spc = "csv_hold"
    /\ fpc["BTC"] = "sleep"
    /\ current_rates["BTC"] # None

\* C19: no task holds data_lock and csv_lock together and a stream task never
\* holds csv_lock; whoever holds a lock is in the critical section and not
\* waiting for another lock, so the tasks cannot deadlock; and, while the
\* process runs, every task waiting for a lock comes to hold it.
C19_LocksNeverNest ==
    /\ [](~(data_lock = "scheduler" /\ csv_lock = "scheduler"))
    /\ [](csv_lock \notin Instruments)
    /\ [](\A i \in Instruments : data_lock = i => fpc[i] = "update")
    /\ [](data_lock = "scheduler" => spc = "snap_hold")
    /\ [](csv_lock = "scheduler" => spc = "csv_hold")
    /\ \A i \in Instruments : (fpc[i] = "lock") ~> (fpc[i] = "update" \/ spc = "crashed")
    /\ (spc = "snap_wait") ~> (spc = "snap_hold")
    /\ (spc = "write" /\ ~Incomplete(snapshot)) ~> (spc = "csv_hold")

\* both stream tasks wait for data_lock while the scheduler holds it
C19_Witness ==
    /\ data_lock = "scheduler"
    /\ spc = "snap_hold"
    /\ \A i \in Instruments : fpc[i] = "lock"

\* a row of a category log without its time_est column
GlobalRowOf(t) == [s |-> t.s, S |-> t.S, z |-> t.z, p |-> t.p, T |-> t.T, usd |-> t.usd]

\* C20: whatever events arrived and whichever appends raised, every row of a
\* category log is also a row of the global log.
C20_CategoryRowsInGlobalLog ==
    \A k \in DOMAIN token_log :
        \A n \in 1..Len(token_log[k]) :
            \E m \in 1..Len(main_log) : main_log[m] = GlobalRowOf(token_log[k][n])
====
